---------------------------- MODULE Spec2Model ----------------------------
(***************************************************************************)
(* RealmStorage (src/src/realmStorage.js): a static facade over one Realm  *)
(* instance.  The facade's statics and the records of the Realm file are   *)
(* the state.  Each public method is an operator from the state and the    *)
(* call's inputs to the call's outcome (how the promise settles, what      *)
(* ErrorSink saw, the records afterwards), and an action that applies it.  *)
(* The methods are declared async but contain no await, so in Spec a call  *)
(* runs to completion when it is made; SpecTx splits each call into the    *)
(* statements of its body to check that instead of assuming it.            *)
(* SpecFilter applies convertFilter, which reads no state, to each filter  *)
(* of a bounded set.                                                       *)
(*                                                                         *)
(* Conventions: an optional JavaScript value is a sequence of length 0     *)
(* (undefined) or 1; a JavaScript string is a TLA+ string; an object is a  *)
(* function from its own keys to their values; an Error is a record of its *)
(* name and message.                                                       *)
(***************************************************************************)
EXTENDS Integers, Sequences, FiniteSets, TLC

VARIABLES
    schemas,        \* RealmStorage.schemas
    schemaNames,    \* RealmStorage.schemaNames
    primaryKeys,    \* RealmStorage.primaryKeys
    errorCallback,  \* RealmStorage.errorCallback
    realm,          \* RealmStorage.realm: identity of the Realm instance
    db,             \* the records the Realm file holds, per object type
    nextId,         \* identity the engine gives the next object it creates
    converted,      \* SpecFilter: the last convertFilter call and its result
    calls,          \* SpecTx: the calls in flight, each at a step of its body
    running,        \* SpecTx: the call that holds the JavaScript thread
    tx              \* SpecTx: the open write transaction, if any

vars == <<schemas, schemaNames, primaryKeys, errorCallback, realm, db, nextId,
          converted, calls, running, tx>>

facade == <<schemas, schemaNames, primaryKeys, errorCallback, realm>>
engine == <<db, nextId>>
sched == <<calls, running, tx>>

---------------------------------------------------------------------------
\* Bounds of the model.

\* Field values range over 1..MaxVal.
MaxVal == 2
\* The engine creates at most MaxObjects objects in a run.
MaxObjects == 2
\* setup is called at most MaxSetups times in a run.
MaxSetups == 2
\* A filter object has at most MaxClauses keys.
MaxClauses == 2
\* SpecTx: at most MaxCallers callers issue calls, each one call at a time.
MaxCallers == 2

---------------------------------------------------------------------------
\* Inputs.

\* Two object types: one with a primary key, one without.
UserSchema == [name |-> "User", primaryKey |-> <<"id">>,
               properties |-> {"id", "f"}]
LogSchema == [name |-> "Log", primaryKey |-> <<>>, properties |-> {"f"}]

\* The schema lists setup is called with: the same two types in both orders.
SchemaLists == {<<UserSchema, LogSchema>>, <<LogSchema, UserSchema>>}

TypeNames == {"User", "Log"}
\* Type-name arguments: the registered names, an unknown one, the empty string.
Keys == TypeNames \cup {"Ghost", ""}

Fields == {"id", "f"}
\* Value objects: any subset of the fields, each with a value.
Values == UNION {[D -> 1..MaxVal] : D \in SUBSET Fields}

\* JavaScript values a filter object holds: numbers, strings, booleans.
Num(n) == [t |-> "number", n |-> n, s |-> ""]
Str(s) == [t |-> "string", n |-> 0, s |-> s]
Bool(b) == [t |-> "boolean", n |-> IF b THEN 1 ELSE 0, s |-> ""]
FilterValues == {Num(1), Num(12), Str("x"), Bool(TRUE)}
FilterKeys == {"a", "b", "id"}

\* A filter argument: undefined, a string, or an object, given by its own
\* enumerable keys in the order Object.keys lists them.
NoFilter == [kind |-> "undefined", text |-> "", entries |-> <<>>]
StringFilter(text) == [kind |-> "string", text |-> text, entries |-> <<>>]
ObjectFilter(entries) == [kind |-> "object", text |-> "", entries |-> entries]

Entries ==
    UNION {{e \in [1..n -> [key : FilterKeys, value : FilterValues]] :
               \A i, j \in 1..n : i # j => e[i].key # e[j].key}
           : n \in 0..MaxClauses}

\* The filters convertFilter is called with.
Filters == {StringFilter(""), StringFilter("a = 1"), StringFilter("id = 1 AND f = 2")}
           \cup {ObjectFilter(e) : e \in Entries}

\* The filters getItems is called with.
GetFilters == {NoFilter, StringFilter(""), StringFilter("id = 1"),
               ObjectFilter(<<[key |-> "id", value |-> Num(1)]>>)}

\* The errorCallback argument of setup: omitted, or a function.
Callbacks == {<<>>, <<"function">>}
\* What the error callback does when it is invoked.
Behaviours == {"returns", "throws"}

NoError == [name |-> "", message |-> ""]
\* Errors the engine raises for reasons of its own (I/O, invalid state).
EngineFaults == {[name |-> "Error", message |-> "engine failure"]}
MayFault == EngineFaults \cup {NoError}
CallbackError == [name |-> "CallbackError", message |-> "callback failed"]

\* The public asynchronous methods, and those with a type-name parameter.
AsyncOps == {"createItem", "updateItem", "deleteItem", "getItems", "removeAll"}
KeyedOps == {"createItem", "updateItem", "getItems", "removeAll"}

Callers == 1..MaxCallers

\* A caller with no call in flight.
Idle == [op |-> "none", key |-> <<>>, item |-> <<>>, pc |-> "idle",
         todo |-> <<>>]

\* SpecTx: the values its calls write.
TxValues == {[id |-> 1], [id |-> 1, f |-> 1], [f |-> 1]}

\* RealmStorage.realm before setup: the static is undefined.
NoRealm == 0

---------------------------------------------------------------------------
\* Errors and ErrorSink.

\* String(error), Error.prototype.toString: "name: message".
ErrorToString(error) ==
    IF error.name = "" THEN error.message
    ELSE IF error.message = "" THEN error.name
    ELSE error.name \o ": " \o error.message

\* Variant: new Error(error.message).
NewErrorOfMessage(error) == [name |-> "Error", message |-> error.message]

\* new Error(error): a plain Error whose message is String(error).
NewError(error) == [name |-> "Error", message |-> ErrorToString(error)]

\* A TypeError of the runtime: a static read before setup is undefined.
UndefinedError(what) ==
    [name |-> "TypeError",
     message |-> "Cannot read property '" \o what \o "' of undefined"]

NotIterableError ==
    [name |-> "TypeError", message |-> "undefined is not iterable"]

Range(s) == {s[i] : i \in 1..Len(s)}

\* checkSchema(key): the error it throws, NoError if it returns.
CheckSchema(key) ==
    IF realm = NoRealm THEN UndefinedError("indexOf")
    ELSE IF key \notin Range(schemaNames)
         THEN [name |-> "Error",
               message |-> "Schema for " \o key \o " it's not defined."]
         ELSE NoError

\* onUncaught(error): which sink is used and whether the call throws; cb is
\* what the callback does with this error.
OnUncaught(error, cb) ==
    IF errorCallback # <<>>
    THEN [sink |-> "callback", thrown |-> cb = "throws"]
    ELSE [sink |-> "console", thrown |-> FALSE]

\* The outcome of a call that returns: the promise resolves with result.
\* touched: whether the call reached the engine; failed: the type whose
\* deletion failed, for removeAll; d, n: the records and the next identity
\* the call leaves.
Resolved(result, touched, d, n) ==
    [status |-> "resolved", result |-> result, error |-> NoError,
     cause |-> NoError, notified |-> 0, sink |-> "none", thrown |-> FALSE,
     touched |-> touched, failed |-> <<>>, db |-> d, nextId |-> n]

\* Variant: a catch block that notifies and does not rethrow.
CaughtAndSwallowed(cause, touched, cb, failed, d) ==
    [status |-> "resolved", result |-> <<>>, error |-> NoError,
     cause |-> cause, notified |-> 1, sink |-> OnUncaught(cause, cb).sink,
     thrown |-> FALSE, touched |-> touched, failed |-> failed, db |-> d,
     nextId |-> nextId]

\* The catch block of every async method: onUncaught(error), then
\* throw new Error(error).  An exception of the callback leaves the block
\* before the throw and is what the promise rejects with.
Caught(cause, touched, cb, failed, d) ==
    LET sunk == OnUncaught(cause, cb) IN
    [status |-> "rejected", result |-> <<>>,
     error |-> IF sunk.thrown THEN CallbackError ELSE NewError(cause),
     cause |-> cause, notified |-> 1, sink |-> sunk.sink,
     thrown |-> sunk.thrown, touched |-> touched, failed |-> failed,
     db |-> d, nextId |-> nextId]

---------------------------------------------------------------------------
\* The engine, as the facade uses it.

NoRecords == [t \in TypeNames |-> {}]

\* The properties the schema given to new Realm declares for the type.
Properties(key) ==
    (CHOOSE schema \in Range(schemas) : schema.name = key).properties

\* realm.objects(key): the live collection of the type's objects.
Objects(d, key) == d[key]

\* What the engine reads from value: the properties the type declares.
Stored(key, value) ==
    [f \in DOMAIN value \cap Properties(key) |-> value[f]]

\* The objects of type key whose primary key equals that of value.
SamePk(d, key, value) ==
    {r \in d[key] : r.fields[primaryKeys[key][1]] = value[primaryKeys[key][1]]}

\* Variant: the stored object is replaced by value.
ReplaceFields(old, value) == value

\* Update mode: the properties value has overwrite, the others stay.
MergeFields(old, value) ==
    [f \in DOMAIN old \cup DOMAIN value |->
        IF f \in DOMAIN value THEN value[f] ELSE old[f]]

\* Variant: the created object is returned and the write is lost.
WriteCreateLost(d, key, value, updating) ==
    [error |-> NoError, db |-> d, item |-> <<nextId>>, created |-> TRUE]

\* realm.write(() => realm.create(key, value, updating)) when the engine has
\* no fault of its own.  A throw inside the write callback cancels the
\* transaction: the records are as before.
WriteCreate(d, key, value, updating) ==
    LET pk == primaryKeys[key]
        fails(msg) == [error |-> [name |-> "Error", message |-> msg],
                       db |-> d, item |-> <<>>, created |-> FALSE]
    IN
    IF pk # <<>> /\ pk[1] \notin DOMAIN value
    THEN fails("Missing value for property '" \o key \o "." \o pk[1] \o "'")
    ELSE IF pk # <<>> /\ SamePk(d, key, value) # {}
    THEN IF updating
         THEN LET old == CHOOSE r \in SamePk(d, key, value) : TRUE
                  new == [oid |-> old.oid,
                          fields |-> MergeFields(old.fields, Stored(key, value))]
              IN [error |-> NoError,
                  db |-> [d EXCEPT ![key] = (@ \ {old}) \cup {new}],
                  item |-> <<old.oid>>, created |-> FALSE]
         ELSE fails("Attempting to create an object of type '" \o key
                    \o "' with an existing primary key value.")
    ELSE [error |-> NoError,
          db |-> [d EXCEPT ![key] =
                     @ \cup {[oid |-> nextId, fields |-> Stored(key, value)]}],
          item |-> <<nextId>>, created |-> TRUE]

\* Variant: the objects of every type are deleted.
WriteDeleteEverything(d, key, fault) ==
    IF fault # NoError THEN [error |-> fault, db |-> d]
    ELSE [error |-> NoError, db |-> NoRecords]

\* realm.write(() => realm.delete(data)) for a collection of one type.
WriteDeleteAll(d, key, fault) ==
    IF fault # NoError THEN [error |-> fault, db |-> d]
    ELSE [error |-> NoError, db |-> [d EXCEPT ![key] = {}]]

\* realm.write(() => realm.delete(item)) for one object, given by identity.
WriteDelete(d, oid, fault) ==
    IF fault # NoError THEN [error |-> fault, db |-> d]
    ELSE IF \A t \in TypeNames : \A r \in d[t] : r.oid # oid
    THEN [error |-> [name |-> "Error",
                     message |-> "Object is invalid. Either it has been previously deleted or the Realm it belongs to has been closed."],
          db |-> d]
    ELSE [error |-> NoError,
          db |-> [t \in TypeNames |-> {r \in d[t] : r.oid # oid}]]

---------------------------------------------------------------------------
\* convertFilter.

\* Variant: a string value is quoted.
JsStringQuoted(value) ==
    CASE value.t = "number" -> IF value.n = 1 THEN "1" ELSE "12"
      [] value.t = "string" -> "'" \o value.s \o "'"
      [] value.t = "boolean" -> IF value.n = 1 THEN "true" ELSE "false"

\* Number.prototype.toString, for a natural number.
RECURSIVE NumToString(_)
NumToString(n) ==
    LET digit == <<"0", "1", "2", "3", "4", "5", "6", "7", "8", "9">> IN
    IF n < 10 THEN digit[n + 1]
    ELSE NumToString(n \div 10) \o digit[(n % 10) + 1]

\* `${value}`: the string conversion of a number, a string, a boolean.
JsString(value) ==
    CASE value.t = "number" -> NumToString(value.n)
      [] value.t = "string" -> value.s
      [] value.t = "boolean" -> IF value.n = 1 THEN "true" ELSE "false"

\* Array.prototype.join
RECURSIVE Join(_, _)
Join(list, separator) ==
    IF Len(list) = 0 THEN ""
    ELSE IF Len(list) = 1 THEN list[1]
    ELSE list[1] \o separator \o Join(Tail(list), separator)

\* The query array convertFilter builds: one `${key} = ${filter[key]}` a key.
Clauses(entries) ==
    [i \in 1..Len(entries) |->
        entries[i].key \o " = " \o JsString(entries[i].value)]

ConvertFilter(filter) ==
    IF filter.kind = "string" THEN filter.text
    ELSE Join(Clauses(filter.entries), " AND ")

---------------------------------------------------------------------------
\* The facade's methods: the outcome of a call made in the current state.
\* fault is what the engine does of its own when the call reaches it, cb
\* what the error callback does if it is invoked.

\* The body of createItem and of updateItem: they differ in the update flag.
CreateOrUpdate(key, value, updating, fault, cb) ==
    LET check == CheckSchema(key) IN
    IF check # NoError THEN Caught(check, FALSE, cb, <<>>, db)
    ELSE IF fault # NoError THEN Caught(fault, TRUE, cb, <<>>, db)
    ELSE LET w == WriteCreate(db, key, value, updating) IN
         IF w.error # NoError THEN Caught(w.error, TRUE, cb, <<>>, db)
         ELSE Resolved(w.item, TRUE, w.db,
                       IF w.created THEN nextId + 1 ELSE nextId)

createItem(key, value, fault, cb) == CreateOrUpdate(key, value, FALSE, fault, cb)

updateItem(key, value, fault, cb) == CreateOrUpdate(key, value, TRUE, fault, cb)

\* item is the identity of a Realm object the caller holds.
deleteItem(item, fault, cb) ==
    IF realm = NoRealm
    THEN Caught(UndefinedError("write"), FALSE, cb, <<>>, db)
    ELSE LET w == WriteDelete(db, item, fault) IN
         IF w.error # NoError THEN Caught(w.error, TRUE, cb, <<>>, db)
         ELSE Resolved(<<>>, TRUE, w.db, nextId)

\* !filter: undefined and the empty string are falsy, an object is not.
Falsy(filter) ==
    filter.kind = "undefined" \/ (filter.kind = "string" /\ filter.text = "")

\* The result of getItems is the engine's live collection: the type it
\* enumerates and, if filtered, the query string it was given.  fault is
\* what the engine makes of the query.
getItems(key, filter, fault, cb) ==
    LET check == CheckSchema(key) IN
    IF check # NoError THEN Caught(check, FALSE, cb, <<>>, db)
    ELSE IF Falsy(filter)
    THEN Resolved(<<[type |-> key, query |-> <<>>]>>, TRUE, db, nextId)
    ELSE IF fault # NoError THEN Caught(fault, TRUE, cb, <<>>, db)
    ELSE Resolved(<<[type |-> key, query |-> <<ConvertFilter(filter)>>]>>,
                  TRUE, db, nextId)

\* The objects a collection returned by getItems without a filter holds.
Contents(view, d) == Objects(d, view.type)

\* Variant: one transaction for all the types, undone as a whole.
RemoveAllOrNothing(d, i, faults) ==
    LET bad == {j \in i..Len(schemaNames) : faults[schemaNames[j]] # NoError} IN
    IF bad = {}
    THEN [error |-> NoError,
          db |-> [t \in TypeNames |->
                     IF \E j \in i..Len(schemaNames) : schemaNames[j] = t
                     THEN {} ELSE d[t]],
          failed |-> <<>>]
    ELSE LET j == CHOOSE j \in bad : \A k \in bad : j <= k IN
         [error |-> faults[schemaNames[j]], db |-> d,
          failed |-> <<schemaNames[j]>>]

\* The loop of removeAll() from the i-th schema name on: one write a type,
\* the first that throws ends the loop.  faults[t] is what the engine does
\* when asked to delete the objects of type t.
RECURSIVE RemoveEach(_, _, _)
RemoveEach(d, i, faults) ==
    IF i > Len(schemaNames) THEN [error |-> NoError, db |-> d, failed |-> <<>>]
    ELSE LET w == WriteDeleteAll(d, schemaNames[i], faults[schemaNames[i]]) IN
         IF w.error # NoError
         THEN [error |-> w.error, db |-> w.db, failed |-> <<schemaNames[i]>>]
         ELSE RemoveEach(w.db, i + 1, faults)

\* if (key): the argument was given and is not the empty string.
Truthy(args) == Len(args) = 1 /\ args[1] # ""

\* args is the argument list of the call: <<>> or <<key>>.
removeAll(args, faults, cb) ==
    IF Truthy(args)
    THEN LET check == CheckSchema(args[1]) IN
         IF check # NoError THEN Caught(check, FALSE, cb, <<>>, db)
         ELSE LET w == WriteDeleteAll(db, args[1], faults[args[1]]) IN
              IF w.error # NoError THEN Caught(w.error, TRUE, cb, args, db)
              ELSE Resolved(<<>>, TRUE, w.db, nextId)
    ELSE IF realm = NoRealm
    THEN Caught(NotIterableError, FALSE, cb, <<>>, db)
    ELSE LET w == RemoveEach(db, 1, faults) IN
         IF w.error # NoError THEN Caught(w.error, TRUE, cb, w.failed, w.db)
         ELSE Resolved(<<>>, TRUE, w.db, nextId)

\* getAllKeys resolves with the schemaNames static.
getAllKeys == Resolved(schemaNames, FALSE, db, nextId)

\* getModel returns the realm static: undefined before setup.
getModel == IF realm = NoRealm THEN <<>> ELSE <<realm>>

---------------------------------------------------------------------------
\* Spec: every call runs to completion when it is made.

Init ==
    /\ schemas = <<>>
    /\ schemaNames = <<>>
    /\ primaryKeys = [t \in {} |-> <<>>]
    /\ errorCallback = <<>>
    /\ realm = NoRealm
    /\ db = NoRecords
    /\ nextId = 1
    /\ converted = <<>>
    /\ calls = [c \in Callers |-> Idle]
    /\ running = 0
    /\ tx = <<>>

\* Variant: the names in reverse order.
SchemaNamesReversed(list) ==
    [i \in 1..Len(list) |-> list[Len(list) + 1 - i].name]

\* schemas.map(schema => schema.name)
SchemaNamesOf(list) == [i \in 1..Len(list) |-> list[i].name]

\* for (const schema of schemas) primaryKeys[schema.name] = schema.primaryKey
\* : the last schema of a name decides.
PrimaryKeysOf(list) ==
    [t \in Range(SchemaNamesOf(list)) |->
        list[CHOOSE i \in 1..Len(list) :
                /\ list[i].name = t
                /\ \A j \in (i + 1)..Len(list) : list[j].name # t].primaryKey]

Setup(list, callback) ==
    /\ realm < MaxSetups
    /\ schemas' = list
    /\ schemaNames' = SchemaNamesOf(list)
    /\ primaryKeys' = PrimaryKeysOf(list)
    /\ errorCallback' = callback
    /\ realm' = realm + 1
    /\ UNCHANGED <<engine, converted, sched>>

\* A call leaves the records and the next identity of its outcome; the
\* engine creates at most MaxObjects objects.
CreateItem(key, value, fault, cb) ==
    LET outcome == createItem(key, value, fault, cb) IN
    /\ outcome.nextId <= MaxObjects + 1
    /\ db' = outcome.db
    /\ nextId' = outcome.nextId
    /\ UNCHANGED <<facade, converted, sched>>

UpdateItem(key, value, fault, cb) ==
    LET outcome == updateItem(key, value, fault, cb) IN
    /\ outcome.nextId <= MaxObjects + 1
    /\ db' = outcome.db
    /\ nextId' = outcome.nextId
    /\ UNCHANGED <<facade, converted, sched>>

\* The caller got the item from the facade earlier.
DeleteItem(item, fault, cb) ==
    LET outcome == deleteItem(item, fault, cb) IN
    /\ item < nextId
    /\ outcome.nextId <= MaxObjects + 1
    /\ db' = outcome.db
    /\ nextId' = outcome.nextId
    /\ UNCHANGED <<facade, converted, sched>>

GetItems(key, filter, fault, cb) ==
    LET outcome == getItems(key, filter, fault, cb) IN
    /\ outcome.nextId <= MaxObjects + 1
    /\ db' = outcome.db
    /\ nextId' = outcome.nextId
    /\ UNCHANGED <<facade, converted, sched>>

RemoveAll(args, faults, cb) ==
    LET outcome == removeAll(args, faults, cb) IN
    /\ outcome.nextId <= MaxObjects + 1
    /\ db' = outcome.db
    /\ nextId' = outcome.nextId
    /\ UNCHANGED <<facade, converted, sched>>

GetAllKeys ==
    /\ getAllKeys.status = "resolved"
    /\ UNCHANGED vars

GetModel ==
    /\ getModel \in {<<>>, <<realm>>}
    /\ UNCHANGED vars

\* The argument list of removeAll: no argument, or a key.
KeyArgs == {<<>>} \cup {<<key>> : key \in Keys}

Next ==
    \/ \E list \in SchemaLists, callback \in Callbacks : Setup(list, callback)
    \/ \E key \in Keys, value \in Values, fault \in MayFault, cb \in Behaviours :
          CreateItem(key, value, fault, cb)
    \/ \E key \in Keys, value \in Values, fault \in MayFault, cb \in Behaviours :
          UpdateItem(key, value, fault, cb)
    \/ \E item \in 1..MaxObjects, fault \in MayFault, cb \in Behaviours :
          DeleteItem(item, fault, cb)
    \/ \E key \in Keys, filter \in GetFilters, fault \in MayFault,
          cb \in Behaviours : GetItems(key, filter, fault, cb)
    \/ \E args \in KeyArgs, faults \in [TypeNames -> MayFault],
          cb \in Behaviours : RemoveAll(args, faults, cb)
    \/ GetAllKeys
    \/ GetModel

Spec == Init /\ [][Next]_vars

\* SpecFilter: convertFilter alone, on every filter of the bounded set.
\* convertFilter is static and synchronous, and reads no state.
ConvertFilterCall(filter) ==
    /\ converted' = <<[filter |-> filter, query |-> ConvertFilter(filter)]>>
    /\ UNCHANGED <<facade, engine, sched>>

NextFilter == \E filter \in Filters : ConvertFilterCall(filter)

SpecFilter == Init /\ [][NextFilter]_vars

---------------------------------------------------------------------------
\* The same methods, one statement of the body a step (SpecTx).  A call holds
\* the JavaScript thread from its invocation to the first point where its
\* body suspends; a caller can invoke a method only while no call holds it.
\* realm.write(f) begins a transaction, runs f, and commits, or cancels the
\* transaction and rethrows if f or the commit throws.

\* Variant: an await between the write callback and the commit.
SuspendsBeforeCommit(op, pc) == pc = "commit"

\* Whether the body of method op suspends (awaits) on reaching statement pc:
\* no body contains an await.
Suspends(op, pc) == FALSE

\* Caller c may run the next statement of its call: it holds the thread, or
\* nobody does and its call is suspended.
Holds(c) ==
    /\ calls[c].pc # "idle"
    /\ running = c \/ running = 0

\* The call of c moves on to statement pc, with todo the types left to it.
Goto(c, pc, todo) ==
    /\ calls' = [calls EXCEPT ![c] = [@ EXCEPT !.pc = pc, !.todo = todo]]
    /\ running' = IF Suspends(calls[c].op, pc) THEN 0 ELSE c

Jump(c, pc) == Goto(c, pc, calls[c].todo)

\* The first statement of each method.
Entry(op, key) ==
    IF op = "deleteItem" THEN "begin"
    ELSE IF op = "removeAll" /\ ~Truthy(key) THEN "loop"
    ELSE "check"

\* A caller invokes a method; item is read by deleteItem only.
Invoke(c, op, key, item) ==
    /\ calls[c].pc = "idle"
    /\ running = 0
    /\ op = "deleteItem" => (key = <<>> /\ item < nextId)
    /\ op \in {"createItem", "updateItem", "getItems"} => Len(key) = 1
    /\ calls' = [calls EXCEPT ![c] =
                    [op |-> op, key |-> key,
                     item |-> IF op = "deleteItem" THEN <<item>> ELSE <<>>,
                     pc |-> Entry(op, key), todo |-> <<>>]]
    /\ running' = c
    /\ UNCHANGED <<facade, engine, converted, tx>>

\* RealmStorage.checkSchema(key), the first statement of the try block.
CheckStep(c) ==
    LET call == calls[c] IN
    /\ Holds(c)
    /\ call.pc = "check"
    /\ IF CheckSchema(call.key[1]) # NoError THEN Jump(c, "catch")
       ELSE IF call.op = "getItems" THEN Jump(c, "read")
       ELSE Goto(c, "begin", call.key)
    /\ UNCHANGED <<facade, engine, converted, tx>>

\* for (let name of RealmStorage.schemaNames)
LoopStep(c) ==
    /\ Holds(c)
    /\ calls[c].pc = "loop"
    /\ IF realm = NoRealm THEN Jump(c, "catch")
       ELSE Goto(c, IF schemaNames = <<>> THEN "return" ELSE "begin",
                 schemaNames)
    /\ UNCHANGED <<facade, engine, converted, tx>>

\* getItems: realm.objects(key), and the filtered view of it if asked.
ReadStep(c) ==
    /\ Holds(c)
    /\ calls[c].pc = "read"
    /\ \E fault \in MayFault :
          IF fault # NoError THEN Jump(c, "catch") ELSE Jump(c, "return")
    /\ UNCHANGED <<facade, engine, converted, tx>>

\* realm.write( ... ): the transaction begins.  removeAll reads the type's
\* collection just before.
BeginStep(c) ==
    /\ Holds(c)
    /\ calls[c].pc = "begin"
    /\ IF realm = NoRealm \/ tx # <<>>
       THEN Jump(c, "catch") /\ tx' = tx
       ELSE Jump(c, "write") /\ tx' = <<[owner |-> c, snapshot |-> db]>>
    /\ UNCHANGED <<facade, engine, converted>>

\* The callback given to realm.write: one realm.create or realm.delete.
WriteStep(c) ==
    LET call == calls[c] IN
    /\ Holds(c)
    /\ call.pc = "write"
    /\ \E fault \in MayFault :
          IF fault # NoError
          THEN Jump(c, "cancel") /\ UNCHANGED engine
          ELSE IF call.op \in {"createItem", "updateItem"}
          THEN \E value \in TxValues :
               LET w == WriteCreate(db, call.key[1], value,
                                    call.op = "updateItem")
               IN IF w.error # NoError
                  THEN Jump(c, "cancel") /\ UNCHANGED engine
                  ELSE /\ w.created => nextId <= MaxObjects
                       /\ Jump(c, "commit")
                       /\ db' = w.db
                       /\ nextId' = IF w.created THEN nextId + 1 ELSE nextId
          ELSE LET w == IF call.op = "deleteItem"
                        THEN WriteDelete(db, call.item[1], NoError)
                        ELSE WriteDeleteAll(db, Head(call.todo), NoError)
               IN IF w.error # NoError
                  THEN Jump(c, "cancel") /\ UNCHANGED engine
                  ELSE /\ Jump(c, "commit")
                       /\ db' = w.db
                       /\ nextId' = nextId
    /\ UNCHANGED <<facade, converted, tx>>

\* realm.write returns: the transaction commits, unless the commit throws.
\* removeAll() goes on with the next type.
CommitStep(c) ==
    LET call == calls[c]
        more == call.op = "removeAll" /\ ~Truthy(call.key)
                /\ Len(call.todo) > 1
    IN
    /\ Holds(c)
    /\ call.pc = "commit"
    /\ \E fault \in MayFault :
          IF fault # NoError
          THEN Jump(c, "cancel") /\ tx' = tx
          ELSE /\ tx' = <<>>
               /\ IF more THEN Goto(c, "begin", Tail(call.todo))
                  ELSE Jump(c, "return")
    /\ UNCHANGED <<facade, engine, converted>>

\* realm.write rethrows: the transaction is cancelled, its changes undone.
CancelStep(c) ==
    /\ Holds(c)
    /\ calls[c].pc = "cancel"
    /\ db' = tx[1].snapshot
    /\ tx' = <<>>
    /\ Jump(c, "catch")
    /\ UNCHANGED <<facade, nextId, converted>>

\* The catch block, or the return: the call ends and frees the thread.
EndStep(c) ==
    /\ Holds(c)
    /\ calls[c].pc \in {"catch", "return"}
    /\ calls' = [calls EXCEPT ![c] = Idle]
    /\ running' = 0
    /\ UNCHANGED <<facade, engine, converted, tx>>

\* setup is synchronous: it runs while no call holds the thread.
SetupTx(list) == realm = NoRealm /\ running = 0 /\ Setup(list, <<>>)

NextTx ==
    \/ \E list \in SchemaLists : SetupTx(list)
    \/ \E c \in Callers, op \in AsyncOps, key \in KeyArgs,
          item \in 1..MaxObjects : Invoke(c, op, key, item)
    \/ \E c \in Callers : CheckStep(c)
    \/ \E c \in Callers : LoopStep(c)
    \/ \E c \in Callers : ReadStep(c)
    \/ \E c \in Callers : BeginStep(c)
    \/ \E c \in Callers : WriteStep(c)
    \/ \E c \in Callers : CommitStep(c)
    \/ \E c \in Callers : CancelStep(c)
    \/ \E c \in Callers : EndStep(c)

SpecTx == Init /\ [][NextTx]_vars

---------------------------------------------------------------------------
\* Properties.  Those of Spec are about every call the facade can receive in
\* a reachable state: P(op, key, arg, outcome) is given the method, the
\* type-name argument list, the other argument and the outcome of the call.

Oids(records) == {r.oid : r \in records}

Registered(key) == realm # NoRealm /\ key \in Range(schemaNames)

\* P holds of every createItem, updateItem and getItems call.
OfKeyed(P(_, _, _, _)) ==
    /\ \A key \in Keys, value \in Values, fault \in MayFault, cb \in Behaviours :
          /\ P("createItem", <<key>>, <<value>>, createItem(key, value, fault, cb))
          /\ P("updateItem", <<key>>, <<value>>, updateItem(key, value, fault, cb))
    /\ \A key \in Keys, filter \in GetFilters, fault \in MayFault,
          cb \in Behaviours :
          P("getItems", <<key>>, <<filter>>, getItems(key, filter, fault, cb))

\* P holds of every deleteItem and removeAll call.
OfUnkeyed(P(_, _, _, _)) ==
    /\ \A item \in 1..(nextId - 1), fault \in MayFault, cb \in Behaviours :
          P("deleteItem", <<>>, <<item>>, deleteItem(item, fault, cb))
    /\ \A args \in KeyArgs, faults \in [TypeNames -> MayFault],
          cb \in Behaviours :
          P("removeAll", args, <<faults>>, removeAll(args, faults, cb))

OfEveryCall(P(_, _, _, _)) == OfKeyed(P) /\ OfUnkeyed(P)

\* C1: after setup, a createItem, updateItem, getItems or removeAll given a
\* type name that is not registered is rejected before the engine is touched:
\* no engine call is made and every type's records are unchanged.
C1_UnknownTypeRejected ==
    LET P(op, key, arg, o) ==
            (realm # NoRealm /\ op \in KeyedOps /\ key # <<>>
             /\ ~Registered(key[1]))
            => (o.status = "rejected" /\ ~o.touched /\ o.db = db)
    IN OfEveryCall(P)

\* The engine refuses what the call asks of it: a value without the primary
\* key of its type, a second object with a primary key in use, the deletion
\* of an object already deleted.
Refused(op, key, arg) ==
    \/ /\ op \in {"createItem", "updateItem"}
       /\ Registered(key[1])
       /\ primaryKeys[key[1]] # <<>>
       /\ LET pk == primaryKeys[key[1]][1] IN
          \/ pk \notin DOMAIN arg[1]
          \/ /\ op = "createItem"
             /\ \E r \in db[key[1]] : r.fields[pk] = arg[1][pk]
    \/ /\ op = "deleteItem"
       /\ \A t \in TypeNames : arg[1] \notin Oids(db[t])

\* Whether the call fails: setup has not run, its type name is not
\* registered, the engine refuses it, or the engine fails of its own.
Fails(op, key, arg, o) ==
    \/ realm = NoRealm
    \/ op \in {"createItem", "updateItem", "getItems"} /\ ~Registered(key[1])
    \/ op = "removeAll" /\ Truthy(key) /\ ~Registered(key[1])
    \/ Refused(op, key, arg)
    \/ o.cause \in EngineFaults

\* C2 as stated: whenever a public asynchronous operation fails, ErrorSink is
\* notified exactly once and the operation rejects with the wrapped error.
C2_AlwaysWrapped ==
    LET P(op, key, arg, o) ==
            Fails(op, key, arg, o)
            => (/\ o.status = "rejected"
                /\ o.notified = 1
                /\ o.error = NewError(o.cause))
    IN OfEveryCall(P)

\* C2 as amended: a failed operation notifies ErrorSink exactly once, through
\* the callback if one was configured and the console otherwise, and never
\* resolves; it rejects with the wrapped error if the callback returns (or
\* there is none) and with the callback's own error if the callback throws.
\* Only a failure rejects an operation.
C2_FailureRejects ==
    LET P(op, key, arg, o) ==
            IF Fails(op, key, arg, o)
            THEN /\ o.status = "rejected"
                 /\ o.cause # NoError
                 /\ o.notified = 1
                 /\ o.sink = (IF errorCallback = <<>> THEN "console"
                              ELSE "callback")
                 /\ o.thrown => (o.sink = "callback" /\ o.error = CallbackError)
                 /\ ~o.thrown => o.error = NewError(o.cause)
            ELSE o.status = "resolved" /\ o.notified = 0
    IN OfEveryCall(P)

C2_Witness ==
    LET o == createItem("User", [id |-> 1], CHOOSE e \in EngineFaults : TRUE,
                        "throws")
    IN
    /\ Registered("User")
    /\ errorCallback # <<>>
    /\ db["User"] # {}
    /\ o.status = "rejected"
    /\ o.notified = 1
    /\ o.sink = "callback"
    /\ o.error = CallbackError
    /\ o.db = db

\* C3 as stated: after setup, the error re-raised to the caller is a generic
\* error whose message is the original message m.
C3_MessageKept ==
    LET P(op, key, arg, o) ==
            (realm # NoRealm /\ o.status = "rejected")
            => (o.error.name = "Error" /\ o.error.message = o.cause.message)
    IN OfEveryCall(P)

\* C3 as amended: when the catch block reaches its throw (the callback
\* returned, or there is none), the re-raised error is a plain Error whose
\* message is the original error's name, ": " and the original message m.
C3_MessageIsRendering ==
    LET P(op, key, arg, o) ==
            (o.status = "rejected" /\ ~o.thrown)
            => (/\ o.error.name = "Error"
                /\ o.error.message = o.cause.name \o ": " \o o.cause.message
                /\ o.cause.name # "" /\ o.cause.message # "")
    IN OfEveryCall(P)

C3_Witness ==
    LET o == getItems("Ghost", NoFilter, NoError, "returns") IN
    /\ realm # NoRealm
    /\ o.status = "rejected"
    /\ o.cause = [name |-> "Error",
                  message |-> "Schema for Ghost it's not defined."]
    /\ o.error = [name |-> "Error",
                  message |-> "Error: Schema for Ghost it's not defined."]

\* What a resolved updateItem(T, v) on a type with a primary key makes of
\* the records of T.
Merged(T, v, o) ==
    LET pk == primaryKeys[T][1]
        before == {r \in db[T] : r.fields[pk] = v[pk]}
        after == {r \in o.db[T] : r.fields[pk] = v[pk]}
        seen == DOMAIN v \cap Properties(T)
    IN
    /\ Cardinality(after) = 1
    /\ Cardinality(before) <= 1
    /\ \A r \in after :
          /\ o.result = <<r.oid>>
          /\ \A f \in seen : f \in DOMAIN r.fields /\ r.fields[f] = v[f]
          /\ before = {} => DOMAIN r.fields = seen
          /\ \A b \in before :
                /\ r.oid = b.oid
                /\ DOMAIN r.fields = DOMAIN b.fields \cup seen
                /\ \A f \in DOMAIN b.fields \ seen : r.fields[f] = b.fields[f]
    /\ o.db[T] \ after = db[T] \ before

\* C4: after a resolved updateItem(T, v) on a type with a primary key, exactly
\* one record of T has v's primary key; it holds v's value in every field v
\* supplies and, in every other field, what the record with that key held
\* before the call; the other records are as they were.
C4_UpdateMerges ==
    LET P(op, key, arg, o) ==
            (/\ op = "updateItem"
             /\ o.status = "resolved"
             /\ primaryKeys[key[1]] # <<>>)
            => Merged(key[1], arg[1], o)
    IN OfKeyed(P)

C4_Witness ==
    LET o == updateItem("User", [id |-> 1], NoError, "returns") IN
    /\ Registered("User")
    /\ Cardinality(db["User"]) = MaxObjects
    /\ \E r \in db["User"] :
          /\ r.fields = [id |-> 1, f |-> MaxVal]
          /\ o.status = "resolved"
          /\ o.result = <<r.oid>>
          /\ o.db = db
    /\ updateItem("User", [id |-> 1, f |-> 1], NoError, "returns").db # db

\* C5: a resolved removeAll(T) for a registered T leaves T without records
\* and every other type's records as they were.
C5_RemoveAllOfType ==
    LET P(op, key, arg, o) ==
            (op = "removeAll" /\ Truthy(key) /\ o.status = "resolved")
            => (/\ Registered(key[1])
                /\ o.db[key[1]] = {}
                /\ \A t \in TypeNames \ {key[1]} : o.db[t] = db[t])
    IN OfUnkeyed(P)

NoFaults == [t \in TypeNames |-> NoError]

C5_Witness ==
    LET o == removeAll(<<"User">>, NoFaults, "returns") IN
    /\ Registered("User")
    /\ db["User"] # {}
    /\ db["Log"] # {}
    /\ o.status = "resolved"
    /\ o.db["User"] = {}
    /\ o.db["Log"] = db["Log"]

\* The places in registration order of the types whose deletion fails.
Failing(faults) ==
    {i \in 1..Len(schemaNames) : faults[schemaNames[i]] # NoError}

\* C6: removeAll() without a type name takes the registered types in
\* registration order, one transaction each.  If no deletion fails it
\* resolves and no registered type has records; if the engine fails on a
\* type, it rejects, the types before that one have no records, and that
\* type and the later ones have the records they had.
C6_RemoveAllOfEverything ==
    LET P(op, key, arg, o) ==
            (op = "removeAll" /\ key = <<>> /\ realm # NoRealm)
            => LET bad == Failing(arg[1]) IN
               IF bad = {}
               THEN /\ o.status = "resolved"
                    /\ \A t \in Range(schemaNames) : o.db[t] = {}
               ELSE LET first == CHOOSE i \in bad : \A j \in bad : i <= j IN
                    /\ o.status = "rejected"
                    /\ o.failed = <<schemaNames[first]>>
                    /\ \A i \in 1..Len(schemaNames) :
                          o.db[schemaNames[i]] =
                             IF i < first THEN {} ELSE db[schemaNames[i]]
    IN OfUnkeyed(P)

C6_Witness ==
    /\ realm # NoRealm
    /\ db[schemaNames[1]] # {}
    /\ db[schemaNames[2]] # {}
    /\ \E fault \in EngineFaults :
          LET o == removeAll(<<>>, [NoFaults EXCEPT ![schemaNames[2]] = fault],
                             "returns")
          IN /\ o.status = "rejected"
             /\ o.db[schemaNames[1]] = {}
             /\ o.db[schemaNames[2]] = db[schemaNames[2]]

\* After a resolved createItem(T, v), the collection getItems(T) resolves
\* with holds the created record, with the fields of v.
RoundTrip ==
    \A key \in Keys, value \in Values, fault \in MayFault, cb \in Behaviours :
       LET o == createItem(key, value, fault, cb)
           got == getItems(key, NoFilter, NoError, cb)
       IN o.status = "resolved"
          => /\ got.status = "resolved"
             /\ \E r \in Contents(got.result[1], o.db) :
                   /\ o.result = <<r.oid>>
                   /\ r.oid \notin Oids(db[key])
                   /\ \A f \in DOMAIN value \cap Properties(key) :
                         f \in DOMAIN r.fields /\ r.fields[f] = value[f]

\* The call is a deleteItem of record r, or a removeAll that covers type t.
Removes(op, key, arg, t, r) ==
    \/ op = "deleteItem" /\ arg = <<r.oid>>
    \/ op = "removeAll" /\ (Truthy(key) => key = <<t>>)

\* C7 as stated: a created record stays in getItems(T) until a deleteItem of
\* it or a removeAll covering T succeeds.
C7_StaysUntilSuccess ==
    LET P(op, key, arg, o) ==
            \A t \in TypeNames : \A r \in db[t] :
               r.oid \notin Oids(o.db[t])
               => (o.status = "resolved" /\ Removes(op, key, arg, t, r))
    IN RoundTrip /\ OfEveryCall(P)

\* The place of a registered type in registration order.
IndexOf(t) == CHOOSE i \in 1..Len(schemaNames) : schemaNames[i] = t

\* C7 as amended: after a resolved createItem(T, v), getItems(T) without a
\* filter includes the created record with v's fields; a record leaves
\* getItems(T) only by a resolved deleteItem of it, by a resolved removeAll
\* covering T, or by a removeAll without a type name that rejects on a type
\* registered after T; any other call leaves it as it is.
C7_StaysUntilDeleted ==
    LET P(op, key, arg, o) ==
            \A t \in TypeNames : \A r \in db[t] :
               IF r.oid \notin Oids(o.db[t])
               THEN \/ o.status = "resolved" /\ Removes(op, key, arg, t, r)
                    \/ /\ o.status = "rejected"
                       /\ op = "removeAll"
                       /\ ~Truthy(key)
                       /\ o.failed # <<>>
                       /\ IndexOf(t) < IndexOf(o.failed[1])
               ELSE r \in o.db[t] \/ op = "updateItem"
    IN RoundTrip /\ OfEveryCall(P)

C7_Witness ==
    LET o == createItem("Log", [f |-> MaxVal], NoError, "returns") IN
    /\ Registered("Log")
    /\ Cardinality(db["Log"]) = MaxObjects - 1
    /\ nextId = MaxObjects
    /\ o.status = "resolved"
    /\ Cardinality(o.db["Log"]) = MaxObjects
    /\ \E r \in o.db["Log"] \ db["Log"] :
          o.result = <<r.oid>> /\ r.fields = [f |-> MaxVal]
    /\ \A args \in KeyArgs, cb \in Behaviours :
          db["Log"] \subseteq
             removeAll(args, [NoFaults EXCEPT !["Log"] =
                                 CHOOSE e \in EngineFaults : TRUE], cb).db["Log"]

\* A caller about to read the engine or to begin a transaction finds no
\* transaction open; an open transaction belongs to the call that holds the
\* thread, which is inside its write.
Isolated ==
    /\ \A c \in Callers : calls[c].pc \in {"read", "begin"} => tx = <<>>
    /\ tx # <<>>
       => (/\ running = tx[1].owner
           /\ calls[tx[1].owner].pc \in {"write", "commit", "cancel"})

\* C8: under any interleaving of calls, every change of the records is made
\* by the call that holds the thread, inside its open transaction; no call
\* reads the engine or begins a transaction while another call's transaction
\* is open; a transaction that fails leaves the records as they were before
\* it began.
C8_TransactionsAtomic ==
    /\ []Isolated
    /\ [][db' # db => (tx # <<>> /\ running = tx[1].owner /\ Holds(running))]_vars
    /\ [][(tx # <<>> /\ tx' = <<>> /\ calls'[tx[1].owner].pc = "catch")
          => db' = tx[1].snapshot]_vars

C8_Witness ==
    /\ tx # <<>>
    /\ db # tx[1].snapshot
    /\ calls[tx[1].owner].op = "removeAll"
    /\ calls[tx[1].owner].pc = "cancel"
    /\ Len(calls[tx[1].owner].todo) = 1
    /\ \E c \in Callers : calls[c].pc = "idle"

\* The text a value of the bounded set is interpolated as.
Rendered(value) ==
    IF value = Num(1) THEN "1"
    ELSE IF value = Num(12) THEN "12"
    ELSE IF value = Str("x") THEN "x"
    ELSE "true"

\* The first n clauses, each `field = value`, with " AND " between them.
RECURSIVE Conjunction(_, _)
Conjunction(entries, n) ==
    IF n = 0 THEN ""
    ELSE (IF n = 1 THEN "" ELSE Conjunction(entries, n - 1) \o " AND ")
         \o entries[n].key \o " = " \o Rendered(entries[n].value)

\* C9: convertFilter returns a string unchanged; for an object it returns
\* the clauses `field = value`, one a key, in key order, joined by " AND ",
\* the values unquoted: {a: 1, b: "x"} gives "a = 1 AND b = x".
C9_ConvertFilter ==
    converted # <<>>
    => LET filter == converted[1].filter
           out == converted[1].query
       IN /\ filter.kind = "string" => out = filter.text
          /\ filter.kind = "object"
             => out = Conjunction(filter.entries, Len(filter.entries))
          /\ filter = ObjectFilter(<<[key |-> "a", value |-> Num(1)],
                                     [key |-> "b", value |-> Str("x")]>>)
             => out = "a = 1 AND b = x"

C9_Witness ==
    /\ converted # <<>>
    /\ converted[1].filter =
          ObjectFilter(<<[key |-> "a", value |-> Num(1)],
                         [key |-> "b", value |-> Str("x")]>>)
    /\ converted[1].query = "a = 1 AND b = x"

SetupStep == \E list \in SchemaLists, callback \in Callbacks : Setup(list, callback)

=============================================================================
